---- MODULE Spec2Model ----
(***************************************************************************)
(* A model of bluesound/bluesound_api.py: the BluesoundApi client, the     *)
(* URLs its methods request from the player, and what each method hands    *)
(* back to its caller for every kind of reply the player can give.         *)
(*                                                                         *)
(* A call is three steps: the method builds its URL and calls urlopen      *)
(* (pc: idle -> waiting), the player or the network answers (waiting ->    *)
(* replied), and the method finishes with a return value or an exception   *)
(* (replied -> idle).  The client is blocked in urlopen in between.        *)
(*                                                                         *)
(* The source holds no poll loop, subscription or cancel(): getStatus and  *)
(* getSyncStatus are one-shot reads, so C1 and C2 have nothing to be       *)
(* stated about here.                                                      *)
(***************************************************************************)
EXTENDS Integers, Sequences, FiniteSets, TLC

VARIABLES
    baseUrl,    \* self.baseUrl
    pc,         \* "idle" | "waiting" | "replied": where the calling thread is
    call,       \* the method called last and its arguments
    sent,       \* the URLs handed to urlopen by that call, in order
    reply,      \* what urlopen met: a body, or a failure
    result      \* what the call gave its caller: a value or an exception

vars == <<baseUrl, pc, call, sent, reply, result>>

(***************************************************************************)
(* Bounds of the model.                                                    *)
(***************************************************************************)
\* Track ids, seek seconds and queue subscripts are drawn from 0..MaxInt.
MaxInt == 2
\* The most repeated children (item, name, song) a reply holds.
MaxChildren == 2

(***************************************************************************)
(* Python values: None, int, str, dict (a function from keys) and list.    *)
(***************************************************************************)
PyNone == [k |-> "None"]
PyInt(n) == [k |-> "int", v |-> n]
PyStr(s) == [k |-> "str", v |-> s]
PyDict(f) == [k |-> "dict", v |-> f]
PyList(q) == [k |-> "list", v |-> q]

\* bool(x), as `if id:` takes it: None, 0 and "" are false.
Truthy(x) ==
    CASE x.k = "None" -> FALSE
      [] x.k = "int" -> x.v # 0
      [] x.k = "str" -> x.v # ""
      [] x.k = "dict" -> DOMAIN x.v # {}
      [] x.k = "list" -> x.v # <<>>

\* str(x) of None, an int or a str.
Str(x) ==
    CASE x.k = "None" -> "None"
      [] x.k = "int" -> ToString(x.v)
      [] x.k = "str" -> x.v

(***************************************************************************)
(* How a statement ends: with a value, or with an exception.               *)
(***************************************************************************)
Return(v) == [st |-> "return", val |-> v]
Raise(e) == [st |-> "raise", exc |-> e]
Pending == [st |-> "pending"]

\* x[key] for a str key.
GetItem(x, key) ==
    CASE x.k = "dict" ->
            IF key \in DOMAIN x.v THEN Return(x.v[key]) ELSE Raise("KeyError")
      [] OTHER -> Raise("TypeError")

\* x[key] = val for a str key; the value is x after the store.
SetItem(x, key, val) ==
    CASE x.k = "dict" -> Return(PyDict((key :> val) @@ x.v))
      [] OTHER -> Raise("TypeError")

RECURSIVE SetToSeq(_)
SetToSeq(S) ==
    IF S = {} THEN <<>>
    ELSE LET x == CHOOSE y \in S : TRUE IN <<x>> \o SetToSeq(S \ {x})

\* iter(x): a list gives its elements, a dict its keys, a str its characters.
Iter(x) ==
    CASE x.k = "list" -> Return(x.v)
      [] x.k = "dict" ->
            LET keys == SetToSeq(DOMAIN x.v) IN
            Return([i \in 1..Len(keys) |-> PyStr(keys[i])])
      [] x.k = "str" ->
            Return([i \in 1..Len(x.v) |-> PyStr(SubSeq(x.v, i, i))])
      [] OTHER -> Raise("TypeError")

(***************************************************************************)
(* XML as the player sends it, and xmltodict.parse.                        *)
(***************************************************************************)
Elem(tag, attrs, text, children) ==
    [tag |-> tag, attrs |-> attrs, text |-> text, children |-> children]

RECURSIVE ElemValue(_)
\* xmltodict's value of one element: None or its text when it has neither
\* attributes nor children; else a dict of '@' + attribute, child tag and
\* '#text', where a tag with one child maps to that child's value and a tag
\* with several to the list of theirs.
ElemValue(e) ==
    IF e.attrs = <<>> /\ e.children = <<>>
    THEN IF e.text = "" THEN PyNone ELSE PyStr(e.text)
    ELSE LET attrKeys == {"@" \o e.attrs[i][1] : i \in 1..Len(e.attrs)}
             tags == {e.children[i].tag : i \in 1..Len(e.children)}
             textKeys == IF e.text = "" THEN {} ELSE {"#text"}
             AttrOf(key) ==
                 LET i == CHOOSE j \in 1..Len(e.attrs) : "@" \o e.attrs[j][1] = key
                 IN PyStr(e.attrs[i][2])
             ChildrenOf(key) ==
                 LET Same(c) == c.tag = key
                     cs == SelectSeq(e.children, Same)
                 IN IF Len(cs) = 1 THEN ElemValue(cs[1])
                    ELSE PyList([i \in 1..Len(cs) |-> ElemValue(cs[i])])
         IN PyDict([key \in attrKeys \cup tags \cup textKeys |->
                        IF key \in attrKeys THEN AttrOf(key)
                        ELSE IF key \in tags THEN ChildrenOf(key)
                        ELSE PyStr(e.text)])

\* A body that is no XML, and a body that is the document with root e.
NotXml == [wf |-> FALSE]
Xml(e) == [wf |-> TRUE, root |-> e]

\* xmltodict.parse(respons.read()): a dict with the root's tag as its one key.
Parse(body) ==
    IF body.wf THEN Return(PyDict(body.root.tag :> ElemValue(body.root)))
    ELSE Raise("ExpatError")

(***************************************************************************)
(* The documents the player answers with.                                  *)
(***************************************************************************)
RECURSIVE SeqsUpTo(_, _)
\* The sequences over S of length at most n.
SeqsUpTo(S, n) ==
    IF n = 0 THEN {<<>>}
    ELSE LET shorter == SeqsUpTo(S, n - 1)
         IN shorter \cup {Append(q, x) : q \in {r \in shorter : Len(r) = n - 1}, x \in S}

Attr(name, value) == <<name, value>>

\* <item .../> of RadioBrowse and RadioPresets: attributes only.
ItemElems ==
    {Elem("item", a, "", <<>>) :
        a \in {<<Attr("URL", "Capture%3Aspotify%3Aplay")>>,
               <<Attr("URL", "Capture%3Aspotify%3Aplay"), Attr("text", "Spotify")>>,
               <<Attr("URL", "Capture%3Abluez%3Abluetooth"), Attr("text", "Bluetooth")>>}}

\* <name image=...>text</name> of Playlists, with or without image and text.
NameElems ==
    {Elem("name", a, t, <<>>) :
        a \in {<<>>, <<Attr("image", "/Artwork?service=LocalMusic")>>},
        t \in {"", "Easy listening", "Party time"}}

\* <song id=...><title>..</title><art>..</art></song> of Playlist: without a
\* title, with an empty one, and with a title.
SongElems ==
    {Elem("song", <<Attr("id", "0")>>, "", c) :
        c \in {<<Elem("art", <<>>, "Chawes, Benni", <<>>)>>,
               <<Elem("title", <<>>, "", <<>>)>>,
               <<Elem("title", <<>>, "Always On My Mind", <<>>)>>,
               <<Elem("title", <<>>, "The Girl From Ipanema", <<>>),
                 Elem("art", <<>>, "Getz, Stan", <<>>)>>}}

\* A root with up to MaxChildren repeated children, with and without attributes.
ListDocs(tag, rootAttrs, children) ==
    {Elem(tag, a, "", c) : a \in {<<>>, rootAttrs}, c \in SeqsUpTo(children, MaxChildren)}

RadiotimeDocs == ListDocs("radiotime", <<Attr("service", "Capture")>>, ItemElems)
PlaylistsDocs == ListDocs("playlists", <<Attr("service", "LocalMusic")>>, NameElems)
PlaylistDocs == ListDocs("playlist", <<Attr("length", "2")>>, SongElems)

SyncStatusDocs ==
    {Elem("SyncStatus", <<Attr("volume", "50"), Attr("name", "NAD C390")>>, "", <<>>),
     Elem("SyncStatus", <<>>, "", <<>>)}

StatusDocs ==
    {Elem("status", <<Attr("etag", "3b85")>>, "",
          <<Elem("state", <<>>, "stream", <<>>), Elem("volume", <<>>, "88", <<>>)>>),
     Elem("status", <<>>, "", <<>>)}

\* Documents with some other root: an error page, and one document of each
\* endpoint, which every other endpoint may be answered with.
OtherDocs ==
    {Elem("html", <<>>, "", <<Elem("body", <<>>, "Not Found", <<>>)>>),
     Elem("radiotime", <<Attr("service", "Capture")>>, "", <<>>),
     Elem("playlists", <<Attr("service", "LocalMusic")>>, "", <<>>),
     Elem("playlist", <<Attr("length", "2")>>, "", <<>>),
     Elem("SyncStatus", <<Attr("volume", "50"), Attr("name", "NAD C390")>>, "", <<>>),
     Elem("status", <<Attr("etag", "3b85")>>, "", <<>>)}

Commands == {"play", "pause", "skip", "back", "volume", "repeat", "shuffle", "queuePlaylist"}
Reads == {"getInputs", "getRadioPresets", "getPlaylists", "getQueue", "getSyncStatus", "getStatus"}

\* The root tag each read subscripts the parsed reply with.
RootTag(op) ==
    CASE op \in {"getInputs", "getRadioPresets"} -> "radiotime"
      [] op = "getPlaylists" -> "playlists"
      [] op = "getQueue" -> "playlist"
      [] op = "getSyncStatus" -> "SyncStatus"
      [] op = "getStatus" -> "status"

DocsFor(op) ==
    CASE op \in {"getInputs", "getRadioPresets"} -> RadiotimeDocs
      [] op = "getPlaylists" -> PlaylistsDocs
      [] op = "getQueue" -> PlaylistDocs
      [] op = "getSyncStatus" -> SyncStatusDocs
      [] op = "getStatus" -> StatusDocs
      [] OTHER -> {}

\* What urlopen(url) can meet: no connection (URLError), an error status
\* (HTTPError), or a response whose body is read.
Body(b) == [kind |-> "body", body |-> b]
Failed(e) == [kind |-> e]
NoReply == [kind |-> "none"]

Replies(op) ==
    {Failed("URLError"), Failed("HTTPError"), Body(NotXml)}
        \cup {Body(Xml(d)) : d \in DocsFor(op) \cup (IF op \in Reads THEN OtherDocs ELSE {})}

(***************************************************************************)
(* What each method does before urlopen: the URL it builds, or the         *)
(* exception building it raises.                                           *)
(***************************************************************************)
\* class RepeatOption(Enum): each member's value.
RepeatOption == [on |-> "0", track |-> "1", off |-> "2"]

\* BluesoundApi.__init__
init(ip_address) == "http://" \o ip_address \o ":11000/"

\* play as it would be with url tested before id.
playRequestUrlFirst(base, id, url, seek) ==
    Return(IF Truthy(url) THEN base \o "Play" \o "?url=" \o Str(url)
           ELSE IF Truthy(id) THEN base \o "Play" \o "?id=" \o Str(id)
           ELSE IF Truthy(seek) THEN base \o "Play" \o "?seek=" \o Str(seek)
           ELSE base \o "Play")

\* play: the first of id, url and seek that is true, in that order, becomes
\* the query; with none the URL is the bare Play.
playRequest(base, id, url, seek) ==
    Return(IF Truthy(id) THEN base \o "Play" \o "?id=" \o Str(id)
           ELSE IF Truthy(url) THEN base \o "Play" \o "?url=" \o Str(url)
           ELSE IF Truthy(seek) THEN base \o "Play" \o "?seek=" \o Str(seek)
           ELSE base \o "Play")

pauseRequest(base) == Return(base \o "Pause")
skipRequest(base) == Return(base \o "Skip")
backRequest(base) == Return(base \o "Back")

\* volume as it would be with a range check before the request.
volumeRequestChecked(base, level) ==
    IF level.v < 0 \/ level.v > 100 THEN Raise("InvalidArgument")
    ELSE Return(base \o "Volume?level=" \o Str(level))

volumeRequest(base, level) == Return(base \o "Volume?level=" \o Str(level))

\* state is a member of RepeatOption.
repeatRequest(base, state) == Return(base \o "Repeat?state=" \o RepeatOption[state])

\* str(int(shuffleOn))
shuffleRequest(base, shuffleOn) ==
    Return(base \o "Shuffle?state=" \o (IF shuffleOn THEN "1" ELSE "0"))

getInputsRequest(base) == Return(base \o "RadioBrowse?service=Capture")
getRadioPresetsRequest(base) == Return(base \o "RadioPresets")
getPlaylistsRequest(base) == Return(base \o "Playlists")

\* getQueue as it would be with end and start formatted in the wrong order.
getQueueRequestSwapped(base, end, start) ==
    Return(base \o "Playlist?end=" \o Str(start) \o "&start=" \o Str(end))

\* "{}Playlist?end={}&start={}".format(self.baseUrl, end, start)
getQueueRequest(base, end, start) ==
    Return(base \o "Playlist?end=" \o Str(end) \o "&start=" \o Str(start))

\* str + name: a name that is no str raises TypeError.
queuePlaylistRequest(base, name) ==
    IF name.k = "str"
    THEN Return(base \o "Add?playlist=" \o name.v \o "&playnow=1&service=LocalMusic")
    ELSE Raise("TypeError")

getSyncStatusRequest(base) == Return(base \o "SyncStatus")
getStatusRequest(base) == Return(base \o "Status")

\* getQueue(self, end=100, start=0)
DefaultEnd == 100
DefaultStart == 0

(***************************************************************************)
(* What each method does with urlopen's outcome.                           *)
(***************************************************************************)
\* A command reads nothing of the response: it returns None, and an
\* exception of urlopen passes to the caller.
commandResult(rep) ==
    IF rep.kind = "body" THEN Return(PyNone) ELSE Raise(rep.kind)

\* The root read with dict.get: a missing root gives None, not KeyError.
parsedRootOrNone(rep, root) ==
    IF rep.kind # "body" THEN Raise(rep.kind)
    ELSE LET tree == Parse(rep.body)
         IN IF tree.st = "raise" THEN tree
            ELSE IF root \in DOMAIN tree.val.v THEN Return(tree.val.v[root])
            ELSE Return(PyNone)

\* with urlopen(..) as respons: xmltodict.parse(respons.read())[root]
parsedRoot(rep, root) ==
    IF rep.kind # "body" THEN Raise(rep.kind)
    ELSE LET tree == Parse(rep.body)
         IN IF tree.st = "raise" THEN tree ELSE GetItem(tree.val, root)

getInputsResult(rep) == parsedRoot(rep, "radiotime")
getRadioPresetsResult(rep) == parsedRoot(rep, "radiotime")

\* The statement after the with block, raise RuntimeError(..), is never
\* reached: the block returns or raises.
getSyncStatusResult(rep) == parsedRoot(rep, "SyncStatus")
getStatusResult(rep) == parsedRoot(rep, "status")

\* The copy with its store left out: entry[from] is read and dropped.
CopyKeyNoStore(entry, from, to) ==
    LET got == GetItem(entry, from)
    IN IF got.st = "raise" THEN got ELSE Return(entry)

\* entry[to] = entry[from]: the subscript is evaluated first, then the store.
CopyKey(entry, from, to) ==
    LET got == GetItem(entry, from)
    IN IF got.st = "raise" THEN got ELSE SetItem(entry, to, got.val)

RECURSIVE CopyEach(_, _, _)
\* for entry in entries: entry[to] = entry[from]; the entries after the loop,
\* or the first exception.
CopyEach(entries, from, to) ==
    IF entries = <<>> THEN Return(<<>>)
    ELSE LET first == CopyKey(Head(entries), from, to)
         IN IF first.st = "raise" THEN first
            ELSE LET rest == CopyEach(Tail(entries), from, to)
                 IN IF rest.st = "raise" THEN rest
                    ELSE Return(<<first.val>> \o rest.val)

\* for entry in record[field]: entry[to] = entry[from]; return record.
\* The loop stores into the entries of a list in place; the keys of a dict
\* and the characters of a str are strs, which take no store.
aliasEntries(record, field, from, to) ==
    LET entries == GetItem(record, field)
    IN IF entries.st = "raise" THEN entries
       ELSE LET items == Iter(entries.val)
            IN IF items.st = "raise" THEN items
               ELSE LET done == CopyEach(items.val, from, to)
                    IN IF done.st = "raise" THEN done
                       ELSE IF entries.val.k = "list"
                            THEN SetItem(record, field, PyList(done.val))
                            ELSE Return(record)

getPlaylistsResult(rep) ==
    LET playlists == parsedRoot(rep, "playlists")
    IN IF playlists.st = "raise" THEN playlists
       ELSE aliasEntries(playlists.val, "name", "#text", "@text")

getQueueResult(rep) ==
    LET queue == parsedRoot(rep, "playlist")
    IN IF queue.st = "raise" THEN queue
       ELSE aliasEntries(queue.val, "song", "title", "@text")

methodResult(op, rep) ==
    CASE op \in Commands -> commandResult(rep)
      [] op = "getInputs" -> getInputsResult(rep)
      [] op = "getRadioPresets" -> getRadioPresetsResult(rep)
      [] op = "getPlaylists" -> getPlaylistsResult(rep)
      [] op = "getQueue" -> getQueueResult(rep)
      [] op = "getSyncStatus" -> getSyncStatusResult(rep)
      [] op = "getStatus" -> getStatusResult(rep)

(***************************************************************************)
(* The state machine.                                                      *)
(***************************************************************************)
IpAddresses == {"192.168.1.38"}
TrackIds == {PyNone} \cup {PyInt(n) : n \in 0..MaxInt}
StreamUrls == {PyNone, PyStr(""), PyStr("Capture%3Aspotify%3Aplay")}
SeekSeconds == {PyNone} \cup {PyInt(n) : n \in 0..MaxInt}
Levels == {PyInt(n) : n \in {-1, 0, 1, 50, 99, 100, 101}}
QueueEnds == {PyInt(n) : n \in (0..MaxInt) \cup {DefaultEnd}}
QueueStarts == {PyInt(n) : n \in (0..MaxInt) \cup {DefaultStart}}
PlaylistNames == {PyStr("Easy listening"), PyStr(""), PyNone}

NoCall == [op |-> "none", args |-> <<>>]

Init ==
    /\ baseUrl \in {init(ip) : ip \in IpAddresses}
    /\ pc = "idle"
    /\ call = NoCall
    /\ sent = <<>>
    /\ reply = NoReply
    /\ result = Pending

\* A method is entered with args: it hands its URL to urlopen and waits, or
\* ends at once with the exception building the URL raised.
Enter(op, args, request) ==
    /\ pc = "idle"
    /\ call' = [op |-> op, args |-> args]
    /\ reply' = NoReply
    /\ IF request.st = "return"
       THEN /\ sent' = <<request.val>>
            /\ result' = Pending
            /\ pc' = "waiting"
       ELSE /\ sent' = <<>>
            /\ result' = request
            /\ pc' = "idle"
    /\ UNCHANGED baseUrl

play(id, url, seek) == Enter("play", <<id, url, seek>>, playRequest(baseUrl, id, url, seek))
pause == Enter("pause", <<>>, pauseRequest(baseUrl))
skip == Enter("skip", <<>>, skipRequest(baseUrl))
back == Enter("back", <<>>, backRequest(baseUrl))
volume(level) == Enter("volume", <<level>>, volumeRequest(baseUrl, level))
repeat(state) == Enter("repeat", <<PyStr(state)>>, repeatRequest(baseUrl, state))
shuffle(shuffleOn) ==
    Enter("shuffle", <<PyStr(IF shuffleOn THEN "True" ELSE "False")>>,
          shuffleRequest(baseUrl, shuffleOn))
getInputs == Enter("getInputs", <<>>, getInputsRequest(baseUrl))
getRadioPresets == Enter("getRadioPresets", <<>>, getRadioPresetsRequest(baseUrl))
getPlaylists == Enter("getPlaylists", <<>>, getPlaylistsRequest(baseUrl))
getQueue(end, start) == Enter("getQueue", <<end, start>>, getQueueRequest(baseUrl, end, start))
queuePlaylist(name) == Enter("queuePlaylist", <<name>>, queuePlaylistRequest(baseUrl, name))
getSyncStatus == Enter("getSyncStatus", <<>>, getSyncStatusRequest(baseUrl))
getStatus == Enter("getStatus", <<>>, getStatusRequest(baseUrl))

\* The player, or the network on the way to it, answers the request.
urlopen ==
    /\ pc = "waiting"
    /\ \E rep \in Replies(call.op) : reply' = rep
    /\ pc' = "replied"
    /\ UNCHANGED <<baseUrl, call, sent, result>>

\* The method finishes: its caller gets the value or the exception.
Finish ==
    /\ pc = "replied"
    /\ result' = methodResult(call.op, reply)
    /\ pc' = "idle"
    /\ UNCHANGED <<baseUrl, call, sent, reply>>

Next ==
    \/ \E id \in TrackIds, url \in StreamUrls, seek \in SeekSeconds : play(id, url, seek)
    \/ pause
    \/ skip
    \/ back
    \/ \E level \in Levels : volume(level)
    \/ \E state \in DOMAIN RepeatOption : repeat(state)
    \/ \E shuffleOn \in BOOLEAN : shuffle(shuffleOn)
    \/ getInputs
    \/ getRadioPresets
    \/ getPlaylists
    \/ \E end \in QueueEnds, start \in QueueStarts : getQueue(end, start)
    \/ \E name \in PlaylistNames : queuePlaylist(name)
    \/ getSyncStatus
    \/ getStatus
    \/ urlopen
    \/ Finish

Spec == Init /\ [][Next]_vars

(***************************************************************************)
(* What the properties below speak of.                                     *)
(***************************************************************************)
\* The call to op has ended: its caller has the value or the exception.
Ended(op) == pc = "idle" /\ call.op = op

\* urlopen gave a body that parsed as XML.
GotDoc == reply.kind = "body" /\ reply.body.wf
Children == reply.body.root.children

Listable == {"getInputs", "getRadioPresets", "getPlaylists", "getQueue"}

\* The repeated field of each listable read.
ListField(op) ==
    CASE op \in {"getInputs", "getRadioPresets"} -> "item"
      [] op = "getPlaylists" -> "name"
      [] op = "getQueue" -> "song"

\* The source entry holds the field its label is taken from: the text
\* attribute of an item, the text node of a name, the title of a song.
HasAlias(op, child) ==
    CASE op \in {"getInputs", "getRadioPresets"} ->
            \E i \in 1..Len(child.attrs) : child.attrs[i][1] = "text"
      [] op = "getPlaylists" -> child.text # ""
      [] op = "getQueue" ->
            \E i \in 1..Len(child.children) : child.children[i].tag = "title"

\* The text of that field in the source; "" when it is there and empty.
AliasText(op, child) ==
    CASE op \in {"getInputs", "getRadioPresets"} ->
            LET i == CHOOSE j \in 1..Len(child.attrs) : child.attrs[j][1] = "text"
            IN child.attrs[i][2]
      [] op = "getPlaylists" -> child.text
      [] op = "getQueue" ->
            LET i == CHOOSE j \in 1..Len(child.children) : child.children[j].tag = "title"
            IN child.children[i].text

\* The i-th entry of the returned record: the field itself when it is no list.
Entry(i) ==
    LET field == result.val.v[ListField(call.op)]
    IN IF field.k = "list" THEN field.v[i] ELSE field

\* A listable read returned a record for a reply with the root it expects.
ListReturned ==
    /\ pc = "idle"
    /\ call.op \in Listable
    /\ result.st = "return"
    /\ GotDoc

\* Which of play's arguments were supplied, and which of them count as true.
Supplied(x) == x # PyNone
IsTrue(x) == x \notin {PyNone, PyInt(0), PyStr("")}
NumSupplied == Cardinality({i \in 1..3 : Supplied(call.args[i])})

(***************************************************************************)
(* C3: volume                                                              *)
(***************************************************************************)
\* C3 as stated: volume(level) fails with InvalidArgument and sends nothing
\* when level < 0 or level > 100, and sends the Volume request carrying
\* level for every level in 0..100.
C3_VolumeRejectsOutOfRange ==
    Ended("volume") =>
        LET level == call.args[1].v
        IN IF level < 0 \/ level > 100
           THEN result = Raise("InvalidArgument") /\ sent = <<>>
           ELSE sent = <<baseUrl \o "Volume?level=" \o ToString(level)>>

\* C3 as amended: volume(level) checks no range. For every integer level,
\* below 0 and above 100 included, it hands urlopen exactly one Volume
\* request carrying that level, and it never fails with InvalidArgument.
C3_VolumeForwardsEveryLevel ==
    call.op = "volume" =>
        /\ sent = <<baseUrl \o "Volume?level=" \o ToString(call.args[1].v)>>
        /\ result # Raise("InvalidArgument")

\* volume(101) was requested from the player and returned.
C3_OutOfRangeLevelSent ==
    /\ Ended("volume")
    /\ call.args[1] = PyInt(101)
    /\ sent = <<"http://192.168.1.38:11000/Volume?level=101">>
    /\ result = Return(PyNone)

(***************************************************************************)
(* C4: play with several arguments                                         *)
(***************************************************************************)
\* C4 as stated: play with two or more of id, url, seek supplied fails with
\* InvalidArgument and sends nothing; with none supplied it sends the bare
\* Play request.
C4_PlayRejectsSeveral ==
    Ended("play") =>
        /\ NumSupplied >= 2 => result = Raise("InvalidArgument") /\ sent = <<>>
        /\ NumSupplied = 0 => sent = <<baseUrl \o "Play">>

\* C4 as amended: play never fails with InvalidArgument and always sends
\* exactly one Play request. Its query is the first of id, url, seek, in
\* that order, that is true (not None, 0 or ""), whatever else is supplied;
\* with none of them true, and so with none supplied, it is the bare Play.
C4_PlayTakesFirstTrue ==
    call.op = "play" =>
        LET id == call.args[1]
            url == call.args[2]
            seek == call.args[3]
        IN /\ Len(sent) = 1
           /\ result # Raise("InvalidArgument")
           /\ IsTrue(id) => sent[1] = baseUrl \o "Play?id=" \o ToString(id.v)
           /\ ~IsTrue(id) /\ IsTrue(url) => sent[1] = baseUrl \o "Play?url=" \o url.v
           /\ ~IsTrue(id) /\ ~IsTrue(url) /\ IsTrue(seek) =>
                  sent[1] = baseUrl \o "Play?seek=" \o ToString(seek.v)
           /\ ~IsTrue(id) /\ ~IsTrue(url) /\ ~IsTrue(seek) => sent[1] = baseUrl \o "Play"

\* play(id=2, url=..) was sent as Play?id=2 and returned.
C4_TwoSuppliedSent ==
    /\ Ended("play")
    /\ call.args = <<PyInt(2), PyStr("Capture%3Aspotify%3Aplay"), PyNone>>
    /\ sent = <<"http://192.168.1.38:11000/Play?id=2">>
    /\ result = Return(PyNone)

(***************************************************************************)
(* C5: getQueue bounds                                                     *)
(***************************************************************************)
\* C5 as stated: getQueue(end, start) with end < start fails with
\* InvalidArgument before any request; with end >= start it sends exactly
\* one Playlist request carrying end and start.
C5_GetQueueRejectsEndBeforeStart ==
    Ended("getQueue") =>
        LET end == call.args[1].v
            start == call.args[2].v
        IN IF end < start
           THEN result = Raise("InvalidArgument") /\ sent = <<>>
           ELSE sent = <<baseUrl \o "Playlist?end=" \o ToString(end)
                             \o "&start=" \o ToString(start)>>

\* C5 as amended: getQueue(end, start) compares nothing. For every end and
\* start, end < start included, it sends exactly one Playlist request
\* carrying those end and start values (100 and 0 by default), and it
\* never fails with InvalidArgument.
C5_GetQueueForwardsBounds ==
    call.op = "getQueue" =>
        /\ sent = <<baseUrl \o "Playlist?end=" \o ToString(call.args[1].v)
                        \o "&start=" \o ToString(call.args[2].v)>>
        /\ result # Raise("InvalidArgument")

\* getQueue(end=0, start=2) was sent and returned a record.
C5_EndBeforeStartSent ==
    /\ Ended("getQueue")
    /\ call.args = <<PyInt(0), PyInt(2)>>
    /\ sent = <<"http://192.168.1.38:11000/Playlist?end=0&start=2">>
    /\ result.st = "return"

(***************************************************************************)
(* C6: a collection of one                                                 *)
(***************************************************************************)
\* C6: when the reply has the expected root and exactly one repeated child
\* that holds its label's source, the read returns and the repeated field
\* of its record is a sequence of length one.
C6_SingleChildIsSequence ==
    /\ pc = "idle"
    /\ call.op \in Listable
    /\ GotDoc
    /\ reply.body.root.tag = RootTag(call.op)
    /\ Len(Children) = 1
    /\ HasAlias(call.op, Children[1])
    => /\ result.st = "return"
       /\ result.val.k = "dict"
       /\ ListField(call.op) \in DOMAIN result.val.v
       /\ result.val.v[ListField(call.op)].k = "list"
       /\ Len(result.val.v[ListField(call.op)].v) = 1

(***************************************************************************)
(* C7: the text label                                                      *)
(***************************************************************************)
\* C7 as stated: every entry of every record a listable read returns,
\* whose source entry holds the label's source field, has a text label
\* that is present, is not absent, and equals that field's value.
C7_LabelPresentAndNotAbsent ==
    ListReturned =>
        \A i \in 1..Len(Children) :
            HasAlias(call.op, Children[i]) =>
                /\ Entry(i).k = "dict"
                /\ "@text" \in DOMAIN Entry(i).v
                /\ Entry(i).v["@text"] # PyNone
                /\ AliasText(call.op, Children[i]) # "" =>
                       Entry(i).v["@text"] = PyStr(AliasText(call.op, Children[i]))

\* C7 as amended: every entry of every record a listable read returns,
\* whose source entry holds the label's source field, has a text label
\* that is present and equals that field's value: the field's text when it
\* has any, and None (absent) when the field is there but empty, as for a
\* song with an empty title.
C7_LabelEqualsSourceField ==
    ListReturned =>
        \A i \in 1..Len(Children) :
            HasAlias(call.op, Children[i]) =>
                /\ Entry(i).k = "dict"
                /\ "@text" \in DOMAIN Entry(i).v
                /\ Entry(i).v["@text"] =
                       IF AliasText(call.op, Children[i]) = "" /\ call.op = "getQueue"
                       THEN PyNone
                       ELSE PyStr(AliasText(call.op, Children[i]))

\* getQueue returned two songs labelled with their titles.
C7_QueueLabelled ==
    /\ ListReturned
    /\ call.op = "getQueue"
    /\ Len(Children) = 2
    /\ Entry(1).v["@text"] = PyStr("Always On My Mind")
    /\ Entry(2).v["@text"] = PyStr("The Girl From Ipanema")

(***************************************************************************)
(* C8: a reply without the expected root                                   *)
(***************************************************************************)
\* The reply parsed, and its root is not the tag the read subscripts with.
RootMissing == GotDoc /\ reply.body.root.tag # RootTag(call.op)

\* C8 as stated: a read whose parsed reply lacks the expected root fails
\* with MalformedResponse.
C8_RootMissingIsMalformedResponse ==
    pc = "idle" /\ call.op \in Reads /\ RootMissing
        => result = Raise("MalformedResponse")

\* C8 as amended: a read whose parsed reply lacks the expected root fails
\* with KeyError, the exception of the subscript (the code defines no
\* MalformedResponse); it never returns a record, empty or partial.
C8_RootMissingRaisesKeyError ==
    pc = "idle" /\ call.op \in Reads /\ RootMissing
        => result = Raise("KeyError")

\* getPlaylists was answered with an error page and failed.
C8_RootMissingSeen ==
    /\ Ended("getPlaylists")
    /\ RootMissing
    /\ reply.body.root.tag = "html"
    /\ result.st = "raise"

(***************************************************************************)
(* C9: play(id=0) and play(seek=0)                                         *)
(***************************************************************************)
\* C9: play with only id supplied sends Play?id=n for every n >= 0, and
\* play with only seek supplied sends Play?seek=s for every s >= 0; neither
\* is the bare Play.
C9_OnlyIdOrSeekIsCarried ==
    Ended("play") =>
        LET id == call.args[1]
            url == call.args[2]
            seek == call.args[3]
        IN /\ Supplied(id) /\ ~Supplied(url) /\ ~Supplied(seek) =>
                  sent = <<baseUrl \o "Play?id=" \o ToString(id.v)>>
           /\ ~Supplied(id) /\ ~Supplied(url) /\ Supplied(seek) =>
                  sent = <<baseUrl \o "Play?seek=" \o ToString(seek.v)>>

(***************************************************************************)
(* C10: no connection                                                      *)
(***************************************************************************)
\* C10: when the request of getStatus or getSyncStatus cannot connect, the
\* caller gets RuntimeError.
C10_NoConnectionRaisesRuntimeError ==
    /\ pc = "idle"
    /\ call.op \in {"getStatus", "getSyncStatus"}
    /\ reply = Failed("URLError")
    => result = Raise("RuntimeError")

====
